---- MODULE Spec2Model ----
(***************************************************************************)
(* Model of src/src/navigation/controllers.cpp: the 1D time-optimal path   *)
(* sampler (controllers::time_optimal_1D::Controller) and the latency      *)
(* compensator (controllers::latency_compensation::Controller).            *)
(*                                                                         *)
(* Numbers are fixed point, so that every comparison of the source is an   *)
(* integer comparison:                                                     *)
(*   lengths      millimetres            speeds        centimetres/second  *)
(*   angles       milliradians           accelerations centimetres/second^2*)
(*   curvatures   1/1000 of 1/metre      sines, cosines  thousandths       *)
(*   control_interval_  milliseconds     timestamps    ticks of 50 ms      *)
(* Products are rounded toward zero (TDiv), which like IEEE rounding is    *)
(* symmetric in the sign of its operand.                                   *)
(***************************************************************************)
EXTENDS Integers, Sequences, FiniteSets, TLC

VARIABLES command_history_, now, recordings, call

vars == <<command_history_, now, recordings, call>>

-----------------------------------------------------------------------------
(* Fixed-point arithmetic standing for the float operations of the source. *)

Abs(a) == IF a < 0 THEN -a ELSE a

Max(a, b) == IF a < b THEN b ELSE a

\* Quotient rounded toward zero, b # 0.
TDiv(a, b) ==
  IF (a < 0) = (b < 0) THEN Abs(a) \div Abs(b) ELSE -(Abs(a) \div Abs(b))

\* Product of a quantity with a ratio in thousandths.
Mul(a, b) == TDiv(a * b, 1000)

RECURSIVE SqrtIter(_, _)
SqrtIter(n, r) ==
  LET next == (r + n \div r) \div 2
  IN IF next >= r THEN r ELSE SqrtIter(n, next)

\* sqrt: the integer square root of n >= 0.
Sqrt(n) == IF n <= 0 THEN 0 ELSE SqrtIter(n, n)

\* sin of x in [0, 1571] mrad, by its series, in thousandths.
SinQ(x) ==
  LET x2 == (x * x) \div 1000
      t3 == (x * x2) \div 6000
      t5 == (t3 * x2) \div 20000
      t7 == (t5 * x2) \div 42000
  IN x - t3 + t5 - t7

\* cos of x in [0, 1571] mrad, by its series, in thousandths.
CosQ(x) ==
  LET x2 == (x * x) \div 1000
      c2 == x2 \div 2
      c4 == (c2 * x2) \div 12000
      c6 == (c4 * x2) \div 30000
      c8 == (c6 * x2) \div 56000
  IN 1000 - c2 + c4 - c6 + c8

\* x brought into (-3142, 3142].
RECURSIVE Wrap(_)
Wrap(x) == IF x > 3142 THEN Wrap(x - 6284)
           ELSE IF x <= -3142 THEN Wrap(x + 6284) ELSE x

Sin(x) ==
  LET w == Wrap(x)
      a == Abs(w)
      q == IF a > 1571 THEN 3142 - a ELSE a
  IN IF w < 0 THEN -SinQ(q) ELSE SinQ(q)

Cos(x) ==
  LET a == Abs(Wrap(x))
  IN IF a > 1571 THEN -CosQ(3142 - a) ELSE CosQ(a)

\* atan2 by bisection: for y >= 0 the angle t in [lo, hi] of the vector (x, y),
\* where y*cos t - x*sin t changes sign.
RECURSIVE AtanIter(_, _, _, _)
AtanIter(y, x, lo, hi) ==
  IF hi - lo <= 1 THEN lo
  ELSE LET mid == (lo + hi) \div 2
       IN IF y * Cos(mid) - x * Sin(mid) >= 0
          THEN AtanIter(y, x, mid, hi) ELSE AtanIter(y, x, lo, mid)

\* atan2(y, x), in [-3142, 3142]: the angle of the vector (x, y).
Atan2(y, x) == (IF y < 0 THEN -1 ELSE 1) * AtanIter(Abs(y), x, 0, 3142)

\* acos(a / b) for 0 <= |a| <= b, as the angle of the vector (a, sqrt(b^2 - a^2)).
Acos(a, b) == Atan2(Sqrt(b * b - a * a), a)

\* asin(a / b) for 0 <= |a| <= b, as the angle of the vector (sqrt(b^2 - a^2), a).
Asin(a, b) == Atan2(a, Sqrt(b * b - a * a))

\* <<q, r>> with a * b = q * c + r and 0 <= r < c, for 0 <= a < c <= 5 * 10^8
\* and b >= 0, by binary long multiplication: no intermediate value leaves
\* the 32-bit integers.
RECURSIVE MulDivQR(_, _, _)
MulDivQR(a, b, c) ==
  IF b = 0 THEN <<0, 0>>
  ELSE LET half == MulDivQR(a, b \div 2, c)
           t == 2 * half[2] + (b % 2) * a
       IN <<2 * half[1] + t \div c, t % c>>

\* a * b / c rounded toward zero, c # 0.
MulDiv(a, b, c) ==
  (IF ((a < 0) = (b < 0)) = (c > 0) THEN 1 ELSE -1)
  * ((Abs(a) \div Abs(c)) * Abs(b) + MulDivQR(Abs(a) % Abs(c), Abs(b), Abs(c))[1])

\* The product of two quantities in units of 10^-8, both below 2 in
\* magnitude, rounded toward zero, from their halves of four digits.
Mul8(a, b) ==
  LET a1 == Abs(a) \div 10000
      a0 == Abs(a) % 10000
      b1 == Abs(b) \div 10000
      b0 == Abs(b) % 10000
      m == a1 * b1 + (a1 * b0 + a0 * b1 + (a0 * b0) \div 10000) \div 10000
  IN IF (a < 0) = (b < 0) THEN m ELSE -m

\* sin and cos of an angle of at most pi/2 in magnitude, angle and value in
\* units of 10^-8: the precision at which a goal distance of 10 m resolves
\* micrometres.
SinFine(x) ==
  LET x2 == Mul8(x, x)
      t3 == Mul8(Abs(x), x2) \div 6
      t5 == Mul8(t3, x2) \div 20
      t7 == Mul8(t5, x2) \div 42
      t9 == Mul8(t7, x2) \div 72
      m == Abs(x) - t3 + t5 - t7 + t9
  IN IF x < 0 THEN -m ELSE m

CosFine(x) ==
  LET x2 == Mul8(x, x)
      c2 == x2 \div 2
      c4 == Mul8(c2, x2) \div 12
      c6 == Mul8(c4, x2) \div 30
      c8 == Mul8(c6, x2) \div 56
      c10 == Mul8(c8, x2) \div 90
  IN 100000000 - c2 + c4 - c6 + c8 - c10

\* The norm of the vector (a, b): the greatest d in [lo, hi] with
\* (d - big) * (d + big) <= small^2, big and small the greater and the
\* lesser of |a| and |b|. The norm exceeds big by at most small^2 / (2 big).
RECURSIVE NormIter(_, _, _, _)
NormIter(big, small, lo, hi) ==
  IF hi - lo <= 1 THEN lo
  ELSE LET mid == (lo + hi) \div 2
           qr == MulDivQR((mid - big) % small, mid + big, small)
           q == ((mid - big) \div small) * (mid + big) + qr[1]
       IN IF q < small \/ (q = small /\ qr[2] = 0)
          THEN NormIter(big, small, mid, hi) ELSE NormIter(big, small, lo, mid)

Norm(a, b) ==
  LET big == Max(Abs(a), Abs(b))
      small == IF Abs(a) < Abs(b) THEN Abs(a) ELSE Abs(b)
  IN IF small = 0 THEN big
     ELSE NormIter(big, small, big, big + small \div ((2 * big) \div small) + 1)

-----------------------------------------------------------------------------
(* The vehicle (vehicles::Car, borrowed through car_) and the parameters   *)
(* the constructors store. The values are those of the reference vehicle:  *)
(* w = 0.28 m, L = 0.5 m, b = 0.32 m, v_max = 1 m/s, a_max = 4 m/s^2,      *)
(* max curvature 1 /m, control interval 0.05 s, margin 0.05 m, max         *)
(* clearance 0.5 m, latency 0.15 s; curvatures are sampled every 0.5 /m.   *)

width_ == 280

length_ == 500

wheelbase_ == 320

max_speed_ == 100

max_acceleration_ == 400

max_curvature_ == 1000

control_interval_ == 50

margin_ == 50

max_clearance_ == 500

curvature_sampling_interval_ == 500

latency_ == 3

\* max_acceleration_ * control_interval_, in cm/s.
AccelStep == (max_acceleration_ * control_interval_) \div 1000

-----------------------------------------------------------------------------
(* time_optimal_1D::Controller::calculateControlSpeed.                     *)
(* The comparisons of free_path_length l with a distance d are made on     *)
(* 2*a_max*l and 2*a_max*d, in units of 10^-5 m^2/s^2: 2*a_max*l is        *)
(* 2*max_acceleration_*l and a squared speed v^2 is 10*v*v.                *)

\* A variant of SnapSpeed with the window 0.5 m/s for 0.05 m/s: a speed of
\* 0.6 m/s would jump to max_speed_ in one control interval.
SnapSpeedWide(current_speed) ==
  IF current_speed >= max_speed_ - 50 /\ current_speed <= max_speed_ + 50
  THEN max_speed_ ELSE current_speed

\* Lines 28-30: a speed within 0.05 m/s of max_speed_ becomes max_speed_.
SnapSpeed(current_speed) ==
  IF current_speed >= max_speed_ - 5 /\ current_speed <= max_speed_ + 5
  THEN max_speed_ ELSE current_speed

\* A variant of SpeedCase whose case 1 leaves out the distance
\* max_acceleration_ * control_interval_^2 / 2 covered while accelerating.
SpeedCaseNoHalfStep(current_speed, free_path_length) ==
  LET v == SnapSpeed(current_speed)
      l2a == 2 * max_acceleration_ * free_path_length
  IN IF v < max_speed_
        /\ l2a >= 10 * (2 * v * AccelStep + (v + AccelStep) * (v + AccelStep))
     THEN 1
     ELSE IF v = max_speed_
             /\ l2a >= 10 * (2 * v * AccelStep + max_speed_ * max_speed_)
     THEN 2
     ELSE IF l2a < 10 * v * v
     THEN 3
     ELSE 4

\* A variant of SpeedCase whose case 1 asks for the braking distance of the
\* current speed, v^2 / (2 a_max), where the source asks for that of the speed
\* after the acceleration.
SpeedCaseCurrentBraking(current_speed, free_path_length) ==
  LET v == SnapSpeed(current_speed)
      l2a == 2 * max_acceleration_ * free_path_length
  IN IF v < max_speed_
        /\ l2a >= 10 * (2 * v * AccelStep + AccelStep * AccelStep + v * v)
     THEN 1
     ELSE IF v = max_speed_
             /\ l2a >= 10 * (2 * v * AccelStep + max_speed_ * max_speed_)
     THEN 2
     ELSE IF l2a < 10 * v * v
     THEN 3
     ELSE 4

\* Lines 32-51: which of the four cases the (snapped) speed and the free
\* path length select.
SpeedCase(current_speed, free_path_length) ==
  LET v == SnapSpeed(current_speed)
      l2a == 2 * max_acceleration_ * free_path_length
  IN IF v < max_speed_
        /\ l2a >= 10 * (2 * v * AccelStep + AccelStep * AccelStep
                        + (v + AccelStep) * (v + AccelStep))
     THEN 1
     ELSE IF v = max_speed_
             /\ l2a >= 10 * (2 * v * AccelStep + max_speed_ * max_speed_)
     THEN 2
     ELSE IF l2a < 10 * v * v
     THEN 3
     ELSE 4

\* A variant of ClampSpeed without lines 56-58: reversal is prevented, a speed
\* above max_speed_ is not.
ClampSpeedNoCeiling(control_speed) ==
  IF control_speed < 0 THEN 0 ELSE control_speed

\* Lines 53-58: no reversal, no speed above max_speed_.
ClampSpeed(control_speed) ==
  IF control_speed < 0 THEN 0
  ELSE IF control_speed > max_speed_ THEN max_speed_ ELSE control_speed

calculateControlSpeed(current_speed, free_path_length) ==
  LET v == SnapSpeed(current_speed)
      case == SpeedCase(current_speed, free_path_length)
  IN ClampSpeed(IF case = 1 THEN v + AccelStep
                ELSE IF case = 2 THEN v
                ELSE v - AccelStep)

\* Lines 49-50: case 4 alone writes the collision warning, with the free path
\* length, to the standard output.
SpeedWarning(current_speed, free_path_length) ==
  IF SpeedCase(current_speed, free_path_length) = 4
  THEN <<"Not enough room to decelerate! Expecting collision...", free_path_length>>
  ELSE <<>>

-----------------------------------------------------------------------------
(* time_optimal_1D::Controller: the arc evaluator. A point is a record     *)
(* [x, y]; a cloud is a sequence of points.                                *)

\* margin_ + width_ / 2: half the width of the swept footprint.
HalfWidth == margin_ + width_ \div 2

\* margin_ + (length_ + wheelbase_) / 2: rear axle to the front of the footprint.
FrontReach == margin_ + (length_ + wheelbase_) \div 2

\* margin_ + (length_ - wheelbase_) / 2: rear axle to the rear of the footprint.
RearReach == margin_ + (length_ - wheelbase_) \div 2

\* Lines 87-92: 1 / curvature, made positive for a right turn.
ArcRadius(curvature) ==
  LET radius == TDiv(1000000, curvature)
  IN IF curvature < 0 THEN -radius ELSE radius

\* A variant of MirrorFor without lines 104-106: a right turn is evaluated on
\* the point as it is.
MirrorForNone(curvature, point) == point

\* Lines 103-107: the point, with y negated for a right turn.
MirrorFor(curvature, point) ==
  IF curvature < 0 THEN [x |-> point.x, y |-> -point.y] ELSE point

\* The lesser of a candidate and the least value so far: "if (candidate <
\* least) least = candidate", as on lines 81-83, 125-127, 136-138, 178-180.
Least(candidate, least) == IF candidate < least THEN candidate ELSE least

\* A variant of StraightStep whose test on y is <= for <: a point on the edge
\* of the swept footprint obstructs.
StraightStepInclusive(free_path_length, point) ==
  IF Abs(point.y) <= width_ \div 2 + margin_ /\ point.x > 0
  THEN Least(point.x - FrontReach, free_path_length)
  ELSE free_path_length

\* Lines 71-84: one iteration of the straight-line loop.
StraightStep(free_path_length, point) ==
  IF Abs(point.y) < width_ \div 2 + margin_ /\ point.x > 0
  THEN Least(point.x - FrontReach, free_path_length)
  ELSE free_path_length

\* Lines 95-98: the radii, about the centre of rotation, of the inside of the
\* rear axle, of the front corners and of the outside rear corner.
InsideRearAxleRadius(radius) == radius - HalfWidth

InsideFrontCornerRadius(radius) ==
  Sqrt((radius - HalfWidth) * (radius - HalfWidth) + FrontReach * FrontReach)

OutsideFrontCornerRadius(radius) ==
  Sqrt((radius + HalfWidth) * (radius + HalfWidth) + FrontReach * FrontReach)

OutsideRearCornerRadius(radius) ==
  Sqrt((radius + HalfWidth) * (radius + HalfWidth) + RearReach * RearReach)

\* Line 110: the distance of the point from the centre of rotation (0, radius).
PointRadius(point, radius) ==
  Sqrt(point.x * point.x + (radius - point.y) * (radius - point.y))

\* Line 111: the angle of the point about the centre of rotation.
PointTheta(point, radius) == Atan2(point.x, radius - point.y)

\* Lines 113-139: the culling and the conditions one and two, for a point at
\* point_radius and theta. Condition three (lines 143-152) assigns only the
\* local candidate_free_path_length, which is never read: it leaves
\* free_path_length as it is.
ArcHit(free_path_length, radius, point_radius, theta, inside_front, outside_front, outside_rear) ==
  IF point_radius < InsideRearAxleRadius(radius) THEN free_path_length
  ELSE IF point_radius > Max(outside_front, outside_rear) THEN free_path_length
  ELSE IF point_radius >= InsideRearAxleRadius(radius)
          /\ point_radius < inside_front /\ theta > 0
  THEN Least(Mul(radius, theta - Acos(InsideRearAxleRadius(radius), point_radius)),
             free_path_length)
  ELSE IF inside_front <= point_radius /\ point_radius < outside_front /\ theta > 0
  THEN Least(Mul(radius, theta - Asin(FrontReach, point_radius)), free_path_length)
  ELSE free_path_length

\* Lines 103-152: one iteration of the arc loop, the radius positive and the
\* point mirrored for a right turn.
ArcStepAt(free_path_length, radius, point) ==
  ArcHit(free_path_length, radius, PointRadius(point, radius),
         PointTheta(point, radius), InsideFrontCornerRadius(radius),
         OutsideFrontCornerRadius(radius), OutsideRearCornerRadius(radius))

ArcStep(free_path_length, curvature, point) ==
  ArcStepAt(free_path_length, ArcRadius(curvature), MirrorFor(curvature, point))

RECURSIVE FreePathLoop(_, _, _, _)
FreePathLoop(point_cloud, curvature, i, free_path_length) ==
  IF i > Len(point_cloud) THEN free_path_length
  ELSE FreePathLoop(point_cloud, curvature, i + 1,
                    IF Abs(curvature) < 10
                    THEN StraightStep(free_path_length, point_cloud[i])
                    ELSE ArcStep(free_path_length, curvature, point_cloud[i]))

\* Lines 62-163. The loops start from the 10 m horizon less FrontReach.
calculateFreePathLength(point_cloud, curvature) ==
  FreePathLoop(point_cloud, curvature, 1, 10000 - FrontReach)

\* The vector (dx, dy) turned by -phi.
Rotate(dx, dy, phi) ==
  [x |-> Mul(dx, Cos(phi)) + Mul(dy, Sin(phi)),
   y |-> Mul(dy, Cos(phi)) - Mul(dx, Sin(phi))]

\* utils::transforms::transformICOM(x, y, phi, radius): the point in the body
\* frame of the vehicle after it advanced by the arc angle phi on the circle
\* of that radius about (0, radius), where its pose is
\* (radius sin phi, radius - radius cos phi, phi).
transformICOM(x, y, phi, radius) ==
  Rotate(x - Mul(radius, Sin(phi)), y - (radius - Mul(radius, Cos(phi))), phi)

\* Lines 173-181: one iteration of the straight-line loop.
StraightClearanceStep(min_clearance, free_path_length, point) ==
  IF (width_ \div 2 + margin_ <= Abs(point.y) /\ Abs(point.y) <= max_clearance_)
     /\ (0 <= point.x /\ point.x <= free_path_length + wheelbase_)
  THEN Least(Abs(point.y) - wheelbase_ \div 2 - margin_, min_clearance)
  ELSE min_clearance

\* Line 203: point_radius * cos(theta). theta is the angle, and point_radius
\* the length, of the vector (radius - y, x) from the centre of rotation to
\* the point, so the product is radius - y: the two differ by the rounding of
\* the floats, which is far below a millimetre.
PointAlong(point, radius) == radius - point.y

\* Lines 201-207: the points that lie along the free path; along is
\* point_radius * cos(theta).
AlongClearance(min_clearance, radius, point_radius, along, theta, phi) ==
  IF (0 <= theta /\ theta <= phi)
     /\ (radius - width_ \div 2 - margin_ - max_clearance_ <= point_radius
         /\ point_radius <= radius + width_ \div 2 + margin_ + max_clearance_)
  THEN Least(Abs(along - radius) - width_ \div 2 - margin_, min_clearance)
  ELSE min_clearance

\* Lines 208-215: the points beside the vehicle at its final position pos. On
\* line 210 the comparison pos.x() <= wheelbase_ is divided by 2 as an integer
\* (0 or 1, halved: 0) before it is and-ed, so this test never passes.
BesideClearance(min_clearance, pos) ==
  IF (width_ \div 2 + margin_ <= Abs(pos.y) /\ Abs(pos.y) <= max_clearance_)
     /\ (0 <= pos.x /\ ((IF pos.x <= wheelbase_ THEN 1 ELSE 0) \div 2) # 0)
  THEN Least(Abs(pos.y) - width_ \div 2 - margin_, min_clearance)
  ELSE min_clearance

\* Lines 193-215: one iteration of the arc loop, the radius positive and the
\* point mirrored for a right turn; phi is free_path_length / radius.
ArcClearanceAt(min_clearance, radius, point, phi) ==
  BesideClearance(
    AlongClearance(min_clearance, radius, PointRadius(point, radius),
                   PointAlong(point, radius), PointTheta(point, radius), phi),
    transformICOM(point.x, point.y, phi, radius))

ArcClearanceStep(min_clearance, curvature, free_path_length, point) ==
  ArcClearanceAt(min_clearance, ArcRadius(curvature), MirrorFor(curvature, point),
                 TDiv(free_path_length * 1000, ArcRadius(curvature)))

RECURSIVE ClearanceLoop(_, _, _, _, _)
ClearanceLoop(point_cloud, curvature, free_path_length, i, min_clearance) ==
  IF i > Len(point_cloud) THEN min_clearance
  ELSE ClearanceLoop(point_cloud, curvature, free_path_length, i + 1,
         IF Abs(curvature) < 10
         THEN StraightClearanceStep(min_clearance, free_path_length, point_cloud[i])
         ELSE ArcClearanceStep(min_clearance, curvature, free_path_length,
                               point_cloud[i]))

\* Lines 165-219.
calculateClearance(point_cloud, curvature, free_path_length) ==
  ClearanceLoop(point_cloud, curvature, free_path_length, 1, max_clearance_)

\* Lines 232-236: the distance to the goal (10 m, 0) from the position
\* (radius sin phi, radius - radius cos phi), in micrometres.
ArcGoalDistance(radius, phi) ==
  Norm(10000000 - Mul8(radius, SinFine(phi)),
       0 - (radius - Mul8(radius, CosFine(phi))))

\* Lines 221-239: the distance to the goal from where the vehicle is after
\* one control interval at max_speed_ on the arc. Here the radius
\* 1 / curvature keeps its sign. Lengths are in micrometres in this function
\* and its result: the candidates' goal distances differ by micrometres.
calculateDistanceToGoal(curvature) ==
  IF Abs(curvature) < 10
  THEN Norm(10000000 - max_speed_ * control_interval_ * 10, 0)
  ELSE ArcGoalDistance(TDiv(1000000000, curvature),
                       MulDiv(max_speed_ * control_interval_ * 10, 100000000,
                              TDiv(1000000000, curvature)))

-----------------------------------------------------------------------------
(* time_optimal_1D::Controller: the path sampler.                          *)

\* The curvatures the loop of line 250 visits. With the interval 0.5 /m the
\* float additions of the loop are exact, and the last curvature is
\* max_curvature_.
SampledCurvatures ==
  {k \in -max_curvature_ .. max_curvature_ :
     (k + max_curvature_) % curvature_sampling_interval_ = 0}

\* PathCandidate(score): the starting path of line 244; its other fields are
\* not set by the sampler.
PathCandidate(score) ==
  [curvature |-> 0, free_path_length |-> 0, clearance |-> 0,
   goal_distance |-> 0, score |-> score]

\* Line 266: the score free_path_length + w1 * clearance + w2 * goal_distance,
\* w1 = 8, w2 = -0.5, kept doubled and in micrometres, so that it is an
\* integer.
Scored(curvature, free_path_length, clearance, goal_distance) ==
  [curvature |-> curvature, free_path_length |-> free_path_length,
   clearance |-> clearance, goal_distance |-> goal_distance,
   score |-> 2 * 1000 * free_path_length + 2 * 8 * 1000 * clearance - goal_distance]

\* Lines 259-266: the candidate of a curvature and its free path length.
CandidateOf(point_cloud, path_curvature, free_path_length) ==
  Scored(path_curvature, free_path_length,
         calculateClearance(point_cloud, path_curvature, free_path_length),
         calculateDistanceToGoal(path_curvature))

\* Lines 252-266: the candidate of one curvature.
Candidate(point_cloud, path_curvature) ==
  CandidateOf(point_cloud, path_curvature,
              calculateFreePathLength(point_cloud, path_curvature))

\* Lines 268-270: a candidate replaces the best path only when its score is
\* strictly greater.
Better(candidate, best_path) ==
  IF candidate.score > best_path.score THEN candidate ELSE best_path

\* Lines 250-271: the loop over the sampled curvatures.
RECURSIVE EvaluateLoop(_, _, _)
EvaluateLoop(point_cloud, path_curvature, best_path) ==
  IF path_curvature <= max_curvature_
  THEN EvaluateLoop(point_cloud, path_curvature + curvature_sampling_interval_,
                    Better(Candidate(point_cloud, path_curvature), best_path))
  ELSE best_path

\* Lines 241-274. The starting path has the score -100 (metres).
evaluatePaths(point_cloud) ==
  EvaluateLoop(point_cloud, -max_curvature_, PathCandidate(2 * (-100000000)))

\* Lines 279-281: the command on the chosen path.
CommandOn(path, current_speed) ==
  [velocity |-> calculateControlSpeed(current_speed, path.free_path_length),
   curvature |-> path.curvature]

\* Lines 276-282.
generateCommand(point_cloud, current_speed) ==
  CommandOn(evaluatePaths(point_cloud), current_speed)

-----------------------------------------------------------------------------
(* latency_compensation::Controller. An entry of command_history_ is a     *)
(* record [command, timestamp]; a State2D is [position, theta, speed].     *)

\* CommandStamped(command): the command stamped with the time of the call.
CommandStamped(command, time) == [command |-> command, timestamp |-> time]

\* A variant of PruneHistory that removes every entry as old as latency_,
\* wherever it stands in the history.
PruneStale(history, time_threshold) ==
  SelectSeq(history, LAMBDA entry : time_threshold - entry.timestamp < latency_)

\* Lines 362-368: entries are popped from the front until the front one is
\* younger than latency_; the entries behind it are not looked at.
RECURSIVE PruneHistory(_, _)
PruneHistory(history, time_threshold) ==
  IF history = <<>> THEN history
  ELSE IF time_threshold - Head(history).timestamp < latency_ THEN history
  ELSE PruneHistory(Tail(history), time_threshold)

\* Lines 378-382: the state advanced by distance_traveled on an arc of angle
\* theta.
CurvedStep(state, command, distance_traveled, theta) ==
  [position |-> [x |-> state.position.x + Mul(distance_traveled, Cos(theta)),
                 y |-> state.position.y + Mul(distance_traveled, Sin(theta))],
   theta |-> state.theta + theta,
   speed |-> command.velocity]

\* Lines 374-386: the state advanced by one command of the history.
ProjectStep(state, command) ==
  IF Abs(command.curvature) > 10
  THEN CurvedStep(state, command, (command.velocity * control_interval_) \div 100,
                  TDiv(((command.velocity * control_interval_) \div 100) * 1000,
                       TDiv(1000000, command.curvature)))
  ELSE [position |-> [x |-> state.position.x
                            + (command.velocity * control_interval_) \div 100,
                      y |-> state.position.y],
        theta |-> state.theta,
        speed |-> command.velocity]

RECURSIVE ProjectLoop(_, _, _)
ProjectLoop(history, i, state) ==
  IF i > Len(history) THEN state
  ELSE ProjectLoop(history, i + 1, ProjectStep(state, history[i].command))

\* Lines 349-395: the state projected through the history as pruned at the
\* time of the call (the pruning itself is PruneHistory).
projectState(history, current_speed, time) ==
  ProjectLoop(PruneHistory(history, time), 1,
              [position |-> [x |-> 0, y |-> 0], theta |-> 0, speed |-> current_speed])

\* Lines 415-421: one point through the inverse of the homogeneous matrix of
\* the state, which for a rotation by theta and a translation by position is
\* the rotation by -theta of the point less the position.
TransformPoint(point, state) ==
  Rotate(point.x - state.position.x, point.y - state.position.y, state.theta)

\* Lines 402-423.
transformCloud(cloud, state) ==
  [i \in 1 .. Len(cloud) |-> TransformPoint(cloud[i], state)]

\* Lines 337-341: the sampler's command on the cloud seen from the projected
\* state, at the projected speed.
CommandFrom(projected_state, point_cloud) ==
  generateCommand(transformCloud(point_cloud, projected_state), projected_state.speed)

\* Lines 332-347 without the recording: the command the compensator computes
\* from the history as pruned at the time of the call.
compensatedCommand(history, point_cloud, current_speed, time) ==
  CommandFrom(projectState(history, current_speed, time), point_cloud)

-----------------------------------------------------------------------------
(* The inputs of the calls, and the bounds of the model.                    *)

\* A cloud has at most MaxCloud points.
MaxCloud == 2

\* The clock runs from 0 to MaxTime ticks.
MaxTime == 3

\* At most MaxRecorded commands are recorded in a run.
MaxRecorded == 3

\* The speed rule is given speeds from SpeedMargin below 0 to SpeedMargin
\* above max_speed_ ...
SpeedMargin == 40

\* ... and free path lengths every LengthStep millimetres, from LengthsBelow
\* steps below 0 to LengthsAbove steps above it, and the two lengths of the
\* reference scenarios.
LengthStep == 5

LengthsBelow == 70

LengthsAbove == 40

Point(x, y) == [x |-> x, y |-> y]

CloudsOf(points) ==
  UNION {[1 .. n -> points] : n \in 0 .. MaxCloud}

SpeedInputs == (0 - SpeedMargin) .. (max_speed_ + SpeedMargin)

LengthInputs ==
  {LengthStep * i : i \in (0 - LengthsBelow) .. LengthsAbove} \cup {540, 9540}

\* Clouds for the straight-line free path length: points behind, beside, at
\* the edge of and inside the swept footprint, nearer and farther than its
\* front, and beyond the horizon.
FreePathClouds ==
  CloudsOf({Point(x, y) : x \in {-200, 0, 300, 1000, 12000},
                          y \in {-190, 0, 189, 190, 400}})

StraightCurvatures == {-9, 0, 9}

\* Clouds for the sampler: points near and far, ahead and to either side.
SamplerClouds ==
  CloudsOf({Point(x, y) : x \in {150, 1000}, y \in {-300, -100, 0, 100, 300}})

SamplerSpeeds == {-10, 50}

\* Clouds, speeds and recorded commands for the compensator: the speeds are
\* one below 0 and one above max_speed_ (the speeds in between arise as the
\* speeds of the commands in the history), and an entry is stamped by its
\* caller with the time of the call or with the time 0, which lies in the
\* past once the clock has advanced.
Clouds == {<<>>, <<Point(1000, 0)>>}

Speeds == {-30, 130}

Commands == {[velocity |-> 100, curvature |-> 500]}

ProbeClouds == {<<Point(1000, 0)>>}

ProbeCurvatures == {0}

-----------------------------------------------------------------------------
(* The state: the command history of the compensator, the clock            *)
(* (ros::Time::now), the number of entries recorded so far, and the last   *)
(* call with what it returned and wrote.                                   *)

Init ==
  /\ command_history_ = <<>>
  /\ now = 0
  /\ recordings = 0
  /\ call = [op |-> "none"]

\* The clock advances.
Tick ==
  /\ now < MaxTime
  /\ now' = now + 1
  /\ UNCHANGED <<command_history_, recordings, call>>

\* Lines 315-320: recordCommand(CommandStamped) appends the entry as given.
RecordCommandStamped(command, timestamp) ==
  /\ recordings < MaxRecorded
  /\ command_history_' = Append(command_history_, [command |-> command, timestamp |-> timestamp])
  /\ recordings' = recordings + 1
  /\ call' = [op |-> "recordCommandStamped", command |-> command, timestamp |-> timestamp]
  /\ UNCHANGED now

\* Lines 322-326: recordCommand(Command) stamps the command and appends it.
RecordCommand(command) ==
  /\ recordings < MaxRecorded
  /\ command_history_' = Append(command_history_, CommandStamped(command, now))
  /\ recordings' = recordings + 1
  /\ call' = [op |-> "recordCommand", command |-> command]
  /\ UNCHANGED now

\* Lines 343-346: the command is recorded, stamped with the time, and
\* returned.
RecordAndReturn(history, command) ==
  /\ command_history_' = Append(history, CommandStamped(command, now))
  /\ recordings' = recordings + 1
  /\ call' = [op |-> "generateCommand", controller |-> "latency_compensation",
              command |-> command]

\* Lines 332-347: the compensator's generateCommand prunes the history,
\* computes the command on the projected cloud, records and returns it.
GenerateCommand(point_cloud, current_speed) ==
  /\ recordings < MaxRecorded
  /\ RecordAndReturn(PruneHistory(command_history_, now),
       compensatedCommand(command_history_, point_cloud, current_speed, now))
  /\ UNCHANGED now

\* Lines 425-436: the compensator's calculateFreePathLength prunes the
\* history and returns the sampler's free path length on the projected cloud.
ProbeFreePathLength(point_cloud, curvature) ==
  /\ command_history_' = PruneHistory(command_history_, now)
  /\ call' = [op |-> "calculateFreePathLength", controller |-> "latency_compensation",
              free_path_length |->
                calculateFreePathLength(
                  transformCloud(point_cloud, projectState(command_history_, 0, now)),
                  curvature)]
  /\ UNCHANGED <<now, recordings>>

\* Lines 276-282: the sampler's generateCommand, which reads no state.
SamplerGenerateCommand(point_cloud, current_speed) ==
  /\ call' = [op |-> "generateCommand", controller |-> "time_optimal_1D",
              point_cloud |-> point_cloud, current_speed |-> current_speed,
              command |-> generateCommand(point_cloud, current_speed)]
  /\ UNCHANGED <<command_history_, now, recordings>>

\* Lines 23-60: the speed rule.
CalculateControlSpeed(current_speed, free_path_length) ==
  /\ call' = [op |-> "calculateControlSpeed", current_speed |-> current_speed,
              free_path_length |-> free_path_length,
              control_speed |-> calculateControlSpeed(current_speed, free_path_length),
              stdout |-> SpeedWarning(current_speed, free_path_length)]
  /\ UNCHANGED <<command_history_, now, recordings>>

\* Lines 62-163: the sampler's calculateFreePathLength.
CalculateFreePathLength(point_cloud, curvature) ==
  /\ call' = [op |-> "calculateFreePathLength", controller |-> "time_optimal_1D",
              point_cloud |-> point_cloud, curvature |-> curvature,
              free_path_length |-> calculateFreePathLength(point_cloud, curvature)]
  /\ UNCHANGED <<command_history_, now, recordings>>

\* The compensator, its operations called in any order as the clock advances,
\* and a sampler of its own, which reads and writes no state of the
\* compensator: a call of it from the initial state stands for a call at any
\* time.
Next ==
  \/ Tick
  \/ \E command \in Commands, timestamp \in {0, now} :
       RecordCommandStamped(command, timestamp)
  \/ \E command \in Commands : RecordCommand(command)
  \/ \E point_cloud \in Clouds, current_speed \in Speeds :
       GenerateCommand(point_cloud, current_speed)
  \/ \E point_cloud \in ProbeClouds, curvature \in ProbeCurvatures :
       ProbeFreePathLength(point_cloud, curvature)
  \/ /\ call.op = "none"
     /\ \E point_cloud \in Clouds, current_speed \in Speeds :
          SamplerGenerateCommand(point_cloud, current_speed)

Spec == Init /\ [][Next]_vars

\* The speed rule alone, on every speed and free path length of the inputs.
\* The function reads no state: one call from the initial state stands for a
\* call at any time.
NextSpeed ==
  /\ call.op = "none"
  /\ \E current_speed \in SpeedInputs, free_path_length \in LengthInputs :
       CalculateControlSpeed(current_speed, free_path_length)

SpecSpeed == Init /\ [][NextSpeed]_vars

\* The straight-line free path length alone.
NextFreePath ==
  /\ call.op = "none"
  /\ \E point_cloud \in FreePathClouds, curvature \in StraightCurvatures :
       CalculateFreePathLength(point_cloud, curvature)

SpecFreePath == Init /\ [][NextFreePath]_vars

\* The sampler alone.
NextSampler ==
  /\ call.op = "none"
  /\ \E point_cloud \in SamplerClouds, current_speed \in SamplerSpeeds :
       SamplerGenerateCommand(point_cloud, current_speed)

SpecSampler == Init /\ [][NextSampler]_vars

\* The speed rule in closed loop against a static obstacle. The vehicle
\* starts at a speed that is a multiple of max_acceleration_ *
\* control_interval_, at most max_speed_, with a free path length from its
\* braking distance v^2 / (2 a_max) to MaxRoom millimetres more. On each tick
\* the speed rule is given the speed it returned on the tick before, and the
\* free path length less the distance travelled.

\* The greatest free path length at the start, beyond the braking distance.
MaxRoom == 400

\* v^2 / (2 a_max) in millimetres, for v a multiple of AccelStep.
BrakingDistance(v) == (10 * v * v) \div (2 * max_acceleration_)

\* The distance travelled in one control interval while the speed changes
\* linearly from v to control_speed, (v + control_speed) / 2 * dt, in
\* millimetres.
Travelled(v, control_speed) == ((v + control_speed) * control_interval_) \div 200

StartSpeeds == {v \in 0 .. max_speed_ : v % AccelStep = 0}

\* Lines 23-60, called with the speed and the free path length of the tick;
\* iterated tells the first tick from the later ones.
SpeedRuleTick(current_speed, free_path_length, iterated) ==
  /\ call' = [op |-> "calculateControlSpeed", current_speed |-> current_speed,
              free_path_length |-> free_path_length,
              control_speed |-> calculateControlSpeed(current_speed, free_path_length),
              stdout |-> SpeedWarning(current_speed, free_path_length),
              iterated |-> iterated]
  /\ UNCHANGED <<command_history_, now, recordings>>

BrakingStart ==
  /\ call.op = "none"
  /\ \E v \in StartSpeeds, room \in 0 .. MaxRoom :
       SpeedRuleTick(v, BrakingDistance(v) + room, FALSE)

BrakingTick ==
  /\ call.op = "calculateControlSpeed"
  /\ SpeedRuleTick(call.control_speed,
                   call.free_path_length
                     - Travelled(call.current_speed, call.control_speed),
                   TRUE)

NextBraking == BrakingStart \/ BrakingTick

\* The control loop calls the speed rule on every control interval.
SpecBraking == Init /\ [][NextBraking]_vars /\ WF_vars(NextBraking)

-----------------------------------------------------------------------------
(* The properties.                                                         *)

\* C1: every command returned by the sampler's generateCommand and by the
\* compensator's generateCommand, for every cloud and every input speed
\* (also below 0 and above max_speed_), has 0 <= velocity <= max_speed_ and
\* |curvature| <= max_curvature_.
C1_CommandWithinLimits ==
  call.op = "generateCommand"
  => /\ 0 <= call.command.velocity
     /\ call.command.velocity <= max_speed_
     /\ Abs(call.command.curvature) <= max_curvature_

\* The compensator, its history empty, has returned a command at max_speed_
\* on the sharpest right turn: of the input speeds only the one above
\* max_speed_ yields it, brought down to max_speed_.
C1_Witness ==
  /\ call.op = "generateCommand"
  /\ call.controller = "latency_compensation"
  /\ recordings = 1
  /\ call.command.velocity = max_speed_
  /\ call.command.curvature = -max_curvature_

\* C2, as stated: for every input speed v_prev (also within 0.05 m/s of
\* max_speed_ and outside [0, max_speed_]) and every free path length, the
\* speed rule returns v with |v - v_prev| <= max_acceleration_ *
\* control_interval_ + epsilon, epsilon taken as 0.01 m/s.
C2_RateLimitedEveryInput ==
  call.op = "calculateControlSpeed"
  => Abs(call.control_speed - call.current_speed)
       <= (max_acceleration_ * control_interval_) \div 1000 + 1

\* C2, amended: for every input speed v_prev in [0, max_speed_] and every free
\* path length, the speed rule returns v with |v - v_prev| <=
\* max_acceleration_ * control_interval_.
C2_RateLimitedInRange ==
  (call.op = "calculateControlSpeed"
   /\ 0 <= call.current_speed /\ call.current_speed <= max_speed_)
  => Abs(call.control_speed - call.current_speed)
       <= (max_acceleration_ * control_interval_) \div 1000

\* A speed just below max_speed_ was snapped to it and then decelerated.
C2_Witness ==
  /\ call.op = "calculateControlSpeed"
  /\ max_speed_ - 5 <= call.current_speed /\ call.current_speed < max_speed_
  /\ call.control_speed = max_speed_ - (max_acceleration_ * control_interval_) \div 1000

\* C3: immediately after the compensator's generateCommand returns, every
\* entry e of the command history has now - e.timestamp < latency_.
C3_EveryEntryYoungAfterGenerate ==
  [][(recordings' # recordings /\ call'.op = "generateCommand")
     => \A i \in 1 .. Len(command_history_') :
          now' - command_history_'[i].timestamp < latency_]_vars

\* C4: the timestamps of the command history are non-decreasing from head to
\* tail (a stamped command older than the tail is stored with the tail's
\* timestamp).
C4_TimestampsNonDecreasing ==
  \A i \in 1 .. Len(command_history_) : \A j \in i .. Len(command_history_) :
    command_history_[i].timestamp <= command_history_[j].timestamp

\* C5: generateCommand called with a negative current speed v returns the
\* braking command (max(0, v - max_acceleration_ * control_interval_), 0),
\* whatever the cloud.
C5_NegativeSpeedBrakes ==
  (call.op = "generateCommand" /\ call.controller = "time_optimal_1D"
   /\ call.current_speed < 0)
  => call.command =
       [velocity |-> Max(0, call.current_speed
                            - (max_acceleration_ * control_interval_) \div 1000),
        curvature |-> 0]

\* The free path length l is below the braking distance v^2 / (2 a_max) of
\* the speed v, both sides multiplied by 2 a_max.
BelowBrakingDistance(v, l) == 2 * max_acceleration_ * l < 10 * v * v

\* C6: for every input speed v and free path length l, if l is below the
\* braking distance of v the speed rule returns max(0, v - max_acceleration_ *
\* control_interval_) and writes the collision warning with l; and it writes
\* the warning in those cases only.
C6_WarningBelowBrakingDistance ==
  call.op = "calculateControlSpeed"
  => /\ BelowBrakingDistance(call.current_speed, call.free_path_length)
        => call.control_speed =
             Max(0, call.current_speed
                    - (max_acceleration_ * control_interval_) \div 1000)
     /\ BelowBrakingDistance(call.current_speed, call.free_path_length)
        <=> (call.stdout # <<>> /\ call.stdout[2] = call.free_path_length)

\* The cloud reflected across y = 0.
Reflect(point_cloud) ==
  [i \in 1 .. Len(point_cloud) |-> [x |-> point_cloud[i].x, y |-> -point_cloud[i].y]]

\* The command with its curvature negated.
Mirrored(command) ==
  [velocity |-> command.velocity, curvature |-> -command.curvature]

AloneAt(point_cloud, best_path) ==
  \A k \in SampledCurvatures :
    k # best_path.curvature => Candidate(point_cloud, k).score < best_path.score

\* One sampled curvature alone attains the greatest score on the cloud.
UniqueBest(point_cloud) == AloneAt(point_cloud, evaluatePaths(point_cloud))

ReferenceBranch(v, l, dv) ==
  IF v < max_speed_
     /\ 2 * max_acceleration_ * l >= 10 * (2 * v * dv + dv * dv + (v + dv) * (v + dv))
  THEN v + dv
  ELSE IF v = max_speed_
          /\ 2 * max_acceleration_ * l >= 10 * (2 * v * dv + max_speed_ * max_speed_)
  THEN v
  ELSE v - dv

Min(a, b) == IF a < b THEN a ELSE b

ReferenceSpeed(v, l) ==
  Max(0, Min(max_speed_,
             ReferenceBranch(IF Abs(v - max_speed_) <= 5 THEN max_speed_ ELSE v, l,
                             (max_acceleration_ * control_interval_) \div 1000)))

\* C8: for every speed v in [0, max_speed_] and every free path length l the
\* speed rule returns the speed of the four-branch reference.
C8_MatchesReference ==
  (call.op = "calculateControlSpeed"
   /\ 0 <= call.current_speed /\ call.current_speed <= max_speed_)
  => call.control_speed = ReferenceSpeed(call.current_speed, call.free_path_length)

\* The example of the claim: v = 0.5 m/s with l = 0.54 m gives 0.7 m/s.
C8_Witness ==
  /\ call.op = "calculateControlSpeed"
  /\ call.current_speed = 50 /\ call.free_path_length = 540
  /\ call.control_speed = 70

\* The least element of a non-empty set of integers.
SetMin(S) == CHOOSE m \in S : \A n \in S : m <= n

IsSuffix(s, t) == \E k \in 0 .. Len(t) : s = SubSeq(t, k + 1, Len(t))

\* C10: a step that records appends exactly one entry at the tail of the
\* history, after entries were removed from its head only, and when the step
\* is the compensator's generateCommand the entry holds the command it
\* returns (so the history is not empty then); any other step removes entries
\* from the head only. The history is thus always a contiguous suffix of the
\* recorded commands in the order of recording.
C10_HistoryOrdering ==
  [][IF recordings' # recordings
     THEN /\ command_history_' # <<>>
          /\ IsSuffix(SubSeq(command_history_', 1, Len(command_history_') - 1),
                      command_history_)
          /\ call'.op = "generateCommand"
             => command_history_'[Len(command_history_')].command = call'.command
     ELSE IsSuffix(command_history_', command_history_)]_vars

\* The compensator's generateCommand has just returned, after it removed an
\* entry from the head of the history and kept another: the history holds two
\* of the three entries recorded.
C10_Witness ==
  /\ call.op = "generateCommand" /\ call.controller = "latency_compensation"
  /\ Len(command_history_) = 2
  /\ recordings = 3
  /\ command_history_[2].command = call.command

====
